---- MODULE Spec2Model ----
(***************************************************************************)
(* Model of the file merge engine of compiler.py: the CompilationWorker    *)
(* thread (run and the readers it calls), the row normalisation passes     *)
(* (_remove_duplicate_rows, _sort_data), FileVerification, the sort-column *)
(* conversion of ModernExcelCompilerApp and the writing of the result      *)
(* (write_excel_file, ExcelFormatter.apply_merged_cells).                  *)
(***************************************************************************)
EXTENDS FiniteSets, Integers, Sequences, TLC

VARIABLES
    list_files,            \* selected items of the file list widget, in list order
    spinbox_header_start,  \* header start row chosen in the GUI
    spinbox_header,        \* number of header rows chosen in the GUI
    checkbox,              \* the option check boxes, by option name
    lineedit_sort_column,  \* text of the sort column field, a sequence of characters
    verification_enabled,  \* ModernExcelCompilerApp.verification_enabled
    worker,                \* fields of the CompilationWorker built by compile_files
    pc,                    \* position of the worker thread: idle, run, done
    i,                     \* loop index of run (0-based)
    combined_data,         \* run: combined_data
    headers,               \* run: headers, None or a list of header rows
    merged_cells,          \* run: merged_cells
    preliminary_info,      \* run: preliminary_info
    successful_files,      \* run: successful_files
    failed_files,          \* run: failed_files, pairs <<file, reason>>
    events,                \* signals emitted by the worker, in emission order
    fn_arg,                \* argument of the function under test (function specifications)
    fn_ret,                \* its return value, once it has been applied
    current_language,      \* TranslationManager.current_language
    callback_calls,        \* calls of the language_changed callbacks made so far
    open_handles,          \* files opened by a reader or a verification and not closed
    button_compile,        \* whether the compile button is enabled
    threads,               \* CompilationWorker threads started whose run has not returned
    dialog,                \* the message box or dialog the last handler has shown
    output_file,           \* the workbook saved by compilation_finished, NoOutput before
    compatible_files,      \* compile_files: the files verify_files reported compatible
    incompatible_files     \* compile_files: the files it reported incompatible

vars == <<list_files, spinbox_header_start, spinbox_header, checkbox,
          lineedit_sort_column, verification_enabled, worker, pc, i,
          combined_data, headers, merged_cells, preliminary_info,
          successful_files, failed_files, events, fn_arg, fn_ret,
          current_language, callback_calls, open_handles, button_compile, threads,
          dialog, output_file, compatible_files, incompatible_files>>

gui_vars == <<list_files, spinbox_header_start, spinbox_header, checkbox,
              lineedit_sort_column, verification_enabled>>

run_vars == <<i, combined_data, headers, merged_cells, preliminary_info,
              successful_files, failed_files, events>>

fn_vars == <<fn_arg, fn_ret>>

lang_vars == <<current_language, callback_calls>>

win_vars == <<button_compile, threads, dialog, output_file, compatible_files,
              incompatible_files>>

app_vars == <<lang_vars, open_handles, win_vars>>

(***************************************************************************)
(* Bounds of the model.                                                    *)
(***************************************************************************)
MaxFiles == 3          \* longest file selection
MaxHeaderStart == 2    \* largest header start row
MaxHeaderRows == 2     \* largest header row count
MaxTextLen == 3        \* longest sort column text
MaxSortRows == 5       \* longest row list given to _sort_data on its own
MaxVerifyRows == 5     \* largest row count of a verified file
MaxDedupRows == 4      \* longest row list given to _remove_duplicate_rows on its own
MaxPreamble == 4       \* longest preamble given to write_excel_file on its own
MaxLangCalls == 4      \* longest sequence of calls made to the translation manager
MaxSelected == 2       \* longest file selection made in the window on its own
MaxWorkers == 2        \* most worker threads started and not returned

(***************************************************************************)
(* Cell values.  A cell is None, an int or a str.  The text of a str cell  *)
(* is Text[v]; Text is listed in Python's string order, so that comparing  *)
(* two str cells is comparing their codes.                                 *)
(***************************************************************************)
Text == <<"", " ", "1", "2", "3", "Fichier source", "None", "a", "b",
          "f1.xlsx", "f2.xlsx", "f3.csv", "f4.txt", "f5.xlsx">>

None == [t |-> "none", v |-> 0]
I(k) == [t |-> "int", v |-> k]
S(c) == [t |-> "str", v |-> c]

\* the str cell holding the given text
Str(text) == S(CHOOSE c \in 1..Len(Text) : Text[c] = text)

\* str(cell) for a cell that is not None: the decimal text of an int, a str itself
PyStr(cell) == IF cell.t = "int" THEN S(cell.v + 2) ELSE cell

\* str(cell).strip() == ""
StripsToEmpty(cell) == cell.t = "str" /\ Text[cell.v] \in {"", " "}

(***************************************************************************)
(* Sequence helpers.                                                       *)
(***************************************************************************)
RECURSIVE Concat(_)
Concat(seqs) == IF seqs = <<>> THEN <<>> ELSE Head(seqs) \o Concat(Tail(seqs))

\* the subsequence of seq at the positions in idx, in order
RECURSIVE PickFrom(_, _, _)
PickFrom(seq, idx, k) ==
    IF k > Len(seq) THEN <<>>
    ELSE (IF k \in idx THEN <<seq[k]>> ELSE <<>>) \o PickFrom(seq, idx, k + 1)

Pick(seq, idx) == PickFrom(seq, idx, 1)

\* the sequences over S of length lo..hi without repeated elements
InjSeqs(S_, lo, hi) ==
    UNION { { s \in [1..n -> S_] : \A a, b \in 1..n : a # b => s[a] # s[b] } : n \in lo..hi }

\* the sequences over S of length lo..hi
BSeqs(S_, lo, hi) == UNION { [1..n -> S_] : n \in lo..hi }

(***************************************************************************)
(* Source files.  rows is the table of the file as the library hands it    *)
(* over: the cells of the active worksheet, max_row rows of max_column     *)
(* cells, or the rows of the DataFrame read from a CSV file.  err is the   *)
(* exception raised when the file is opened ("" when it opens), merged the *)
(* merged ranges of the worksheet; the cells of a merged range other than  *)
(* its top-left cell are empty.                                            *)
(***************************************************************************)
Range(min_row, min_col, max_row, max_col) ==
    [min_row |-> min_row, min_col |-> min_col, max_row |-> max_row, max_col |-> max_col]

File(name, ext, err, rows, merged) ==
    [name |-> name, ext |-> ext, err |-> err, rows |-> rows, merged |-> merged,
     protected |-> FALSE, utf8 |-> TRUE]

F1 == File("f1.xlsx", "xlsx", "",
           << <<Str("a"), None>>, <<I(2), I(1)>>, <<I(1), I(2)>>, <<I(2), I(1)>> >>,
           << Range(1, 1, 1, 2) >>)

F2 == File("f2.xlsx", "xlsx", "",
           << <<Str("a"), Str("b"), Str("a")>>, <<None, None, None>>,
              <<I(1), Str("a"), None>>, <<Str(" "), None, None>>, <<I(2), Str("b"), I(1)>>,
              <<None, None, I(2)>> >>,
           << Range(2, 1, 2, 3) >>)

F3 == File("f3.csv", "csv", "",
           << <<Str("a"), Str("b")>>, <<Str("2"), Str("1")>> >>,
           << >>)

F4 == File("f4.txt", "txt", "", << <<Str("a")>> >>, << >>)

F5 == File("f5.xlsx", "xlsx", "PermissionError", << <<Str("a")>> >>, << >>)

\* the files of the directory
Directory == {F1, F2, F3, F4, F5}

FileNamed(name) == CHOOSE f \in Directory : f.name = name

(***************************************************************************)
(* openpyxl worksheet access.                                              *)
(***************************************************************************)
max_row(f) == Len(f.rows)

max_column(f) == Len(f.rows[1])

\* ws[row]: the cells of a row; a row past max_row has max_column empty cells
\* (openpyxl creates the missing cells of a worksheet on access)
WsRow(f, row) ==
    IF row <= max_row(f) THEN f.rows[row] ELSE [c \in 1..max_column(f) |-> None]

\* ws.iter_rows(min_row=...): the rows from min_row to max_row
iter_rows(f, min_row) ==
    [k \in 1..(IF max_row(f) >= min_row THEN max_row(f) - min_row + 1 ELSE 0)
        |-> f.rows[min_row + k - 1]]

\* the source label appended to a data row: the file name
Label(f) == Str(f.name)

(***************************************************************************)
(* CompilationWorker readers.  w is the worker (self).                     *)
(***************************************************************************)
\* CheckedCells leaving the last cell out whether or not it is the label
CheckedCells_short(w, row_data) == SubSeq(row_data, 1, Len(row_data) - 1)

\* the cells checked by the empty-row test: row_data[:-1 if add_filename else None]
CheckedCells(w, row_data) ==
    IF w.add_filename THEN SubSeq(row_data, 1, Len(row_data) - 1) ELSE row_data

\* not remove_empty_rows or not all(cell is None or str(cell).strip() == "" ...)
KeepsRow(w, row_data) ==
    \/ ~w.remove_empty_rows
    \/ \E c \in 1..Len(CheckedCells(w, row_data)) :
          LET cell == CheckedCells(w, row_data)[c]
          IN  ~(cell = None \/ StripsToEmpty(cell))

\* the row with the source label appended when add_filename is set
WithLabel(w, f, row) == IF w.add_filename THEN Append(row, Label(f)) ELSE row

\* the separator and repeated header block put before the data: the test
\* is made on the list that was just created, which is empty
RepeatBlock(w, data, block) == IF w.repeat_headers /\ Len(data) > 0 THEN block ELSE << >>

\* _extract_excel_data reading from one row too far
_extract_excel_data_late(w, f) ==
    LET hs == w.header_start_row
        hr == w.header_rows
        rows == [k \in 1..Len(iter_rows(f, hs + hr + 1)) |->
                   WithLabel(w, f, iter_rows(f, hs + hr + 1)[k])]
    IN  SelectSeq(rows, LAMBDA row_data : KeepsRow(w, row_data))

_extract_excel_data(w, f) ==
    LET data == << >>
        hs == w.header_start_row
        hr == w.header_rows
        sep == [c \in 1..(max_column(f) + (IF w.add_filename THEN 1 ELSE 0)) |-> None]
        rep == [r \in 1..hr |->
                  IF w.add_filename THEN Append(WsRow(f, hs + r - 1), None)
                  ELSE WsRow(f, hs + r - 1)]
        rows == [k \in 1..Len(iter_rows(f, hs + hr)) |-> WithLabel(w, f, iter_rows(f, hs + hr)[k])]
    IN  data \o RepeatBlock(w, data, <<sep>> \o rep)
             \o SelectSeq(rows, LAMBDA row_data : KeepsRow(w, row_data))

\* the merged ranges captured while reading the header rows: the whole
\* list of ranges is scanned once per header row; a read-only worksheet
\* (every file but the one at index 0) has no merged_cells
CapturedRanges(w, f, file_index) ==
    LET kept == SelectSeq(f.merged,
                    LAMBDA r : r.min_row <= w.header_start_row + w.header_rows)
    IN  IF file_index = 0
        THEN Concat([r \in 1..w.header_rows |-> kept])
        ELSE << >>

\* the value of headers: None, or a list of header rows
NoHeaders == [isNone |-> TRUE, rows |-> << >>]
Headers(rows) == [isNone |-> FALSE, rows |-> rows]

\* _process_excel_file taking the rows above the header from every file
_process_excel_file_every(w, f, file_index, global_headers, prelim) ==
    LET hs == w.header_start_row
        hr == w.header_rows
        pre == IF hs > 1
               THEN [r \in 1..(hs - 1) |-> WsRow(f, r)]
               ELSE << >>
    IN  [file_headers |->
            IF global_headers.isNone
            THEN Headers([r \in 1..hr |-> WsRow(f, hs + r - 1)])
            ELSE global_headers,
         file_data |-> _extract_excel_data(w, f),
         file_merged_cells |->
            IF global_headers.isNone THEN CapturedRanges(w, f, file_index) ELSE << >>,
         preliminary_info |-> prelim \o pre]

_process_excel_file(w, f, file_index, global_headers, prelim) ==
    LET hs == w.header_start_row
        hr == w.header_rows
        pre == IF file_index = 0 /\ hs > 1
               THEN [r \in 1..(hs - 1) |-> WsRow(f, r)]
               ELSE << >>
    IN  [file_headers |->
            IF global_headers.isNone
            THEN Headers([r \in 1..hr |-> WsRow(f, hs + r - 1)])
            ELSE global_headers,
         file_data |-> _extract_excel_data(w, f),
         file_merged_cells |->
            IF global_headers.isNone THEN CapturedRanges(w, f, file_index) ELSE << >>,
         preliminary_info |-> prelim \o pre]

_process_csv_file(w, f, file_index, global_headers, prelim) ==
    LET hs == w.header_start_row
        hr == w.header_rows
        n == Len(f.rows)
        Upto(last) == IF last < n THEN last ELSE n
        pre == IF file_index = 0 /\ hs > 1
               THEN SubSeq(f.rows, 1, Upto(hs - 1))
               ELSE << >>
        file_headers == IF global_headers.isNone
                        THEN Headers(SubSeq(f.rows, hs, Upto(hs + hr - 1)))
                        ELSE global_headers
        file_data == << >>
        sep == [c \in 1..(Len(file_headers.rows[Len(file_headers.rows)])
                          + (IF w.add_filename THEN 1 ELSE 0)) |-> None]
        rep == [r \in 1..Len(file_headers.rows) |->
                  IF w.add_filename THEN Append(file_headers.rows[r], None)
                  ELSE file_headers.rows[r]]
        rows == [k \in 1..(IF n >= hs + hr THEN n - (hs + hr) + 1 ELSE 0) |->
                   WithLabel(w, f, f.rows[hs + hr + k - 1])]
    IN  [file_headers |-> file_headers,
         file_data |-> file_data \o RepeatBlock(w, file_data, <<sep>> \o rep)
                         \o SelectSeq(rows, LAMBDA row_data : KeepsRow(w, row_data)),
         file_merged_cells |-> << >>,
         preliminary_info |-> prelim \o pre]

\* the exception raised while file is processed ("" when there is none):
\* an unsupported extension, or the error of opening the file
FileError(f) ==
    IF f.ext \notin {"xlsx", "xls", "csv"} THEN "Format de fichier non pris en charge"
    ELSE f.err

\* the result of the reader the extension selects
ReadFile(w, f, file_index, global_headers, prelim) ==
    IF f.ext \in {"xlsx", "xls"}
    THEN _process_excel_file(w, f, file_index, global_headers, prelim)
    ELSE _process_csv_file(w, f, file_index, global_headers, prelim)

(***************************************************************************)
(* Row normalisation passes of the worker.                                 *)
(***************************************************************************)
\* RowTuple with None stringified like any other cell
RowTuple_str(row) == [c \in 1..Len(row) |-> IF row[c] = None THEN Str("None") ELSE PyStr(row[c])]

\* tuple(str(cell) if cell is not None else None for cell in row)
RowTuple(row) == [c \in 1..Len(row) |-> IF row[c] = None THEN None ELSE PyStr(row[c])]

RECURSIVE RemoveFrom(_, _, _, _)
RemoveFrom(data, k, seen, unique_data) ==
    IF k > Len(data) THEN unique_data
    ELSE IF RowTuple(data[k]) \notin seen
         THEN RemoveFrom(data, k + 1, seen \cup {RowTuple(data[k])}, Append(unique_data, data[k]))
         ELSE RemoveFrom(data, k + 1, seen, unique_data)

_remove_duplicate_rows(data) == RemoveFrom(data, 1, {}, << >>)

\* x[idx] raises IndexError
IndexError(x, idx) == IF idx >= 0 THEN idx >= Len(x) ELSE -idx > Len(x)

\* x[idx], Python indexing: 0-based, a negative index counts from the end
At(x, idx) == IF idx >= 0 THEN x[idx + 1] ELSE x[Len(x) + idx + 1]

\* (a is None, a) < (b is None, b) for two cells that can be compared
KeyLess(a, b) ==
    IF a = None THEN FALSE
    ELSE IF b = None THEN TRUE
    ELSE a.v < b.v

\* sorting rows on x[idx] raises: a row has no cell idx, or two cells that
\* are not None have different types ('<' between int and str)
SortRaises(rows, idx) ==
    \/ \E k \in 1..Len(rows) : IndexError(rows[k], idx)
    \/ \E k, l \in 1..Len(rows) :
          /\ At(rows[k], idx) # None
          /\ At(rows[l], idx) # None
          /\ At(rows[k], idx).t # At(rows[l], idx).t

\* x put into the sorted list after every row that is not greater than it
RECURSIVE InsertSorted(_, _, _)
InsertSorted(sorted, x, idx) ==
    IF sorted = << >> THEN <<x>>
    ELSE IF KeyLess(At(x, idx), At(Head(sorted), idx)) THEN <<x>> \o sorted
    ELSE <<Head(sorted)>> \o InsertSorted(Tail(sorted), x, idx)

\* sorted(rows, key=lambda x: (x[idx] is None, x[idx])): a stable sort
RECURSIVE PySortedFrom(_, _, _, _)
PySortedFrom(rows, idx, k, sorted) ==
    IF k > Len(rows) THEN sorted
    ELSE PySortedFrom(rows, idx, k + 1, InsertSorted(sorted, rows[k], idx))

PySorted(rows, idx) == PySortedFrom(rows, idx, 1, << >>)

\* all(cell is None for cell in row)
AllNone(row) == \A c \in 1..Len(row) : row[c] = None

\* the sections of data: a row that is entirely None starts a new section
RECURSIVE SplitSections(_, _, _, _)
SplitSections(data, k, sections, current_section) ==
    LET closed == IF current_section # << >> THEN Append(sections, current_section)
                  ELSE sections
    IN  IF k > Len(data) THEN closed
        ELSE IF AllNone(data[k]) THEN SplitSections(data, k + 1, closed, <<data[k]>>)
        ELSE SplitSections(data, k + 1, sections, Append(current_section, data[k]))

\* the rows of a section kept at its top, and the rows that are sorted
SectionHeaderRows(w, section) ==
    SubSeq(section, 1, IF Len(section) < w.header_rows + 1 THEN Len(section)
                       ELSE w.header_rows + 1)

SectionDataRows(w, section) == SubSeq(section, w.header_rows + 2, Len(section))

\* the rows in reverse order
Reversed(rows) == [k \in 1..Len(rows) |-> rows[Len(rows) + 1 - k]]

\* _sort_data sorting the rows taken from the last to the first
_sort_data_reversed(w, data) ==
    LET sort_idx == w.sort_column - 1
        sections == SplitSections(data, 1, << >>, << >>)
    IN  IF w.repeat_headers
        THEN IF \E s \in 1..Len(sections) :
                    SortRaises(SectionDataRows(w, sections[s]), sort_idx)
             THEN data
             ELSE Concat([s \in 1..Len(sections) |->
                            SectionHeaderRows(w, sections[s])
                            \o PySorted(Reversed(SectionDataRows(w, sections[s])), sort_idx)])
        ELSE IF SortRaises(data, sort_idx) THEN data
             ELSE PySorted(Reversed(data), sort_idx)

\* _sort_data keeping the sections it could sort when another one raises
_sort_data_partial(w, data) ==
    LET sort_idx == w.sort_column - 1
        sections == SplitSections(data, 1, << >>, << >>)
    IN  IF w.repeat_headers
        THEN Concat([s \in 1..Len(sections) |->
                       IF SortRaises(SectionDataRows(w, sections[s]), sort_idx)
                       THEN sections[s]
                       ELSE SectionHeaderRows(w, sections[s])
                            \o PySorted(SectionDataRows(w, sections[s]), sort_idx)])
        ELSE IF SortRaises(data, sort_idx) THEN data
             ELSE PySorted(data, sort_idx)

\* _sort_data sorting every row of a section, the rows at its top included
_sort_data_whole(w, data) ==
    LET sort_idx == w.sort_column - 1
        sections == SplitSections(data, 1, << >>, << >>)
    IN  IF w.repeat_headers
        THEN IF \E s \in 1..Len(sections) : SortRaises(sections[s], sort_idx)
             THEN data
             ELSE Concat([s \in 1..Len(sections) |-> PySorted(sections[s], sort_idx)])
        ELSE IF SortRaises(data, sort_idx) THEN data
             ELSE PySorted(data, sort_idx)

_sort_data(w, data) ==
    LET sort_idx == w.sort_column - 1
        sections == SplitSections(data, 1, << >>, << >>)
    IN  IF w.repeat_headers
        THEN IF \E s \in 1..Len(sections) :
                    SortRaises(SectionDataRows(w, sections[s]), sort_idx)
             THEN data
             ELSE Concat([s \in 1..Len(sections) |->
                            SectionHeaderRows(w, sections[s])
                            \o PySorted(SectionDataRows(w, sections[s]), sort_idx)])
        ELSE IF SortRaises(data, sort_idx) THEN data
             ELSE PySorted(data, sort_idx)

(***************************************************************************)
(* ModernExcelCompilerApp.get_sort_column_index.  A text is a sequence of  *)
(* characters.                                                             *)
(***************************************************************************)
Letters == <<"A", "B", "C", "D", "E", "F", "G", "H", "I", "J", "K", "L", "M",
             "N", "O", "P", "Q", "R", "S", "T", "U", "V", "W", "X", "Y", "Z">>

LowerLetters == <<"a", "b", "c", "d", "e", "f", "g", "h", "i", "j", "k", "l", "m",
                  "n", "o", "p", "q", "r", "s", "t", "u", "v", "w", "x", "y", "z">>

Digits == <<"0", "1", "2", "3", "4", "5", "6", "7", "8", "9">>

IsLetter(c) == \E k \in 1..26 : Letters[k] = c

IsDigit(c) == \E k \in 1..10 : Digits[k] = c

\* ord(c) - ord('A') for an upper-case letter
LetterIndex(c) == (CHOOSE k \in 1..26 : Letters[k] = c) - 1

DigitValue(c) == (CHOOSE k \in 1..10 : Digits[k] = c) - 1

\* c.upper()
UpperChar(c) ==
    IF \E k \in 1..26 : LowerLetters[k] = c
    THEN Letters[CHOOSE k \in 1..26 : LowerLetters[k] = c]
    ELSE c

upper(text) == [k \in 1..Len(text) |-> UpperChar(text[k])]

RECURSIVE lstrip(_)
lstrip(text) ==
    IF text # << >> /\ Head(text) = " " THEN lstrip(Tail(text)) ELSE text

RECURSIVE rstrip(_)
rstrip(text) ==
    IF text # << >> /\ text[Len(text)] = " "
    THEN rstrip(SubSeq(text, 1, Len(text) - 1))
    ELSE text

strip(text) == rstrip(lstrip(text))

\* the value of a digit string
RECURSIVE DigitsValue(_)
DigitsValue(text) ==
    IF text = << >> THEN 0
    ELSE 10 * DigitsValue(SubSeq(text, 1, Len(text) - 1)) + DigitValue(text[Len(text)])

AllDigits(text) == text # << >> /\ \A k \in 1..Len(text) : IsDigit(text[k])

\* int(text) raises ValueError
ValueError(text) ==
    ~(\/ AllDigits(text)
      \/ (text # << >> /\ Head(text) = "-" /\ AllDigits(Tail(text))))

\* int(text) for a text that int accepts
int(text) ==
    IF Head(text) = "-" THEN 0 - DigitsValue(Tail(text)) ELSE DigitsValue(text)

get_sort_column_index(lineedit_text) ==
    LET sort_text == upper(strip(lineedit_text))
    IN  IF sort_text = << >> THEN 0
        ELSE IF Len(sort_text) = 1 /\ IsLetter(sort_text[1]) THEN LetterIndex(sort_text[1])
        ELSE IF ValueError(sort_text) THEN 0
        ELSE IF int(sort_text) - 1 > 0 THEN int(sort_text) - 1 ELSE 0

(***************************************************************************)
(* FileVerification.  The result is (is_compatible, reason); lines is the  *)
(* row count the reason names (0 when it names none).                      *)
(***************************************************************************)
Verdict(is_compatible, reason, lines) ==
    [is_compatible |-> is_compatible, reason |-> reason, lines |-> lines]

\* verify_excel_file accepting a file that ends with its header block
verify_excel_file_lenient(f, header_start_row, header_rows) ==
    IF f.err = "PermissionError"
    THEN Verdict(FALSE, "Le fichier est ouvert dans une autre application", 0)
    ELSE IF f.err # ""
    THEN Verdict(FALSE, "Erreur lors de la verification", 0)
    ELSE IF max_row(f) < header_start_row + header_rows - 1
    THEN Verdict(FALSE, "Structure d'en-tete incompatible", max_row(f))
    ELSE IF f.protected
    THEN Verdict(FALSE, "Le fichier est protege en ecriture", 0)
    ELSE Verdict(TRUE, "Fichier compatible", 0)

verify_excel_file(f, header_start_row, header_rows) ==
    IF f.err = "PermissionError"
    THEN Verdict(FALSE, "Le fichier est ouvert dans une autre application", 0)
    ELSE IF f.err # ""
    THEN Verdict(FALSE, "Erreur lors de la verification", 0)
    ELSE IF max_row(f) < header_start_row + header_rows
    THEN Verdict(FALSE, "Structure d'en-tete incompatible", max_row(f))
    ELSE IF f.protected
    THEN Verdict(FALSE, "Le fichier est protege en ecriture", 0)
    ELSE Verdict(TRUE, "Fichier compatible", 0)

\* whether verify_excel_file returns with the workbook it loaded still open:
\* wb.close() is reached on the compatible path only, the two early returns
\* leave the function without it; a file that does not open gives no workbook
verify_excel_file_open(f, header_start_row, header_rows) ==
    /\ f.err = ""
    /\ \/ max_row(f) < header_start_row + header_rows
       \/ f.protected

\* whether verify_csv_file returns with the file still open: both reads are
\* made inside a with statement
verify_csv_file_open(f, header_start_row, header_rows) == FALSE

verify_csv_file(f, header_start_row, header_rows) ==
    LET row_count == Len(f.rows)
    IN  IF f.err = "PermissionError"
        THEN Verdict(FALSE, "Le fichier est ouvert dans une autre application", 0)
        ELSE IF f.err # ""
        THEN Verdict(FALSE, "Erreur lors de la verification", 0)
        ELSE IF row_count < header_start_row + header_rows
        THEN Verdict(FALSE, "Structure d'en-tete incompatible", row_count)
        ELSE IF f.utf8
        THEN Verdict(TRUE, "Fichier compatible", 0)
        ELSE Verdict(TRUE, "Fichier compatible (encodage latin-1)", 0)

(***************************************************************************)
(* ExcelFormatter and write_excel_file.  The written sheet is described by *)
(* the row at which the header block starts and the merged ranges applied  *)
(* to it; saved tells whether wb.save was reached.                         *)
(***************************************************************************)
\* write_preliminary_info: the row after the preamble
write_preliminary_info(prelim) == 1 + Len(prelim)

\* write_headers: the row after the header block
write_headers(hdrs, start_row) == start_row + Len(hdrs)

\* the range of apply_merged_cells, its rows moved from the original header
\* start to the new one
adjusted_range(merged_range, header_start_original, header_start_new) ==
    Range(merged_range.min_row - header_start_original + header_start_new,
          merged_range.min_col,
          merged_range.max_row - header_start_original + header_start_new,
          merged_range.max_col)

\* CellRange rejects a row below 1 (ValueError)
RangeError(r) == r.min_row < 1

\* apply_merged_cells leaving the rows of the ranges as they were captured
apply_merged_cells_unshifted(merged_ranges, header_start_original, header_start_new) ==
    { merged_ranges[k] : k \in 1..Len(merged_ranges) }

\* apply_merged_cells: the ranges merged in the sheet
apply_merged_cells(merged_ranges, header_start_original, header_start_new) ==
    { adjusted_range(merged_ranges[k], header_start_original, header_start_new) :
         k \in 1..Len(merged_ranges) }

\* write_excel_file; header_start_original is spinbox_header_start.value()
\* at the time of writing.  No check box is read before the ranges are applied.
write_excel_file(prelim, hdrs, data, merged, header_start_original) ==
    LET after_preamble == IF prelim # << >>
                          THEN write_preliminary_info(prelim) ELSE 1
        header_start_row == after_preamble
        applies == hdrs # << >> /\ merged # << >>
        ranges == IF applies
                  THEN apply_merged_cells(merged, header_start_original, header_start_row)
                  ELSE {}
        raised == applies /\ \E k \in 1..Len(merged) :
                     RangeError(adjusted_range(merged[k], header_start_original,
                                               header_start_row))
    IN  [saved |-> ~raised,
         header_start_row |-> header_start_row,
         merged_cells |-> IF raised THEN {} ELSE ranges]

(***************************************************************************)
(* The compilation: compile_files builds and starts the worker, run reads  *)
(* the files one by one and emits the result.                              *)
(***************************************************************************)
Signal(sig, n, file, reason) == [sig |-> sig, n |-> n, file |-> file, reason |-> reason]

NoWorker ==
    [files |-> << >>, header_start_row |-> 1, header_rows |-> 1, add_filename |-> TRUE,
     sort_data |-> FALSE, sort_column |-> 0, repeat_headers |-> FALSE,
     remove_empty_rows |-> FALSE, remove_duplicates |-> FALSE]

\* the state of run before its loop
RunStart ==
    /\ i = 0
    /\ combined_data = << >>
    /\ headers = NoHeaders
    /\ merged_cells = << >>
    /\ preliminary_info = << >>
    /\ successful_files = << >>
    /\ failed_files = << >>
    /\ events = << >>

FnIdle == fn_arg = << >> /\ fn_ret = << >>

NoOutput == [saved |-> FALSE]

\* the translation manager, the window and the files once the window is built
\* and update_selection_count has set the compile button from the selection
AppIdle ==
    /\ current_language = "fr"
    /\ callback_calls = 0
    /\ open_handles = {}
    /\ button_compile = (list_files # << >>)
    /\ threads = 0
    /\ dialog = "none"
    /\ output_file = NoOutput
    /\ compatible_files = << >>
    /\ incompatible_files = << >>

GuiIdle ==
    /\ list_files = << >>
    /\ spinbox_header_start = 1
    /\ spinbox_header = 1
    /\ checkbox = [add_filename |-> TRUE, sort_data |-> FALSE, repeat_header |-> FALSE,
                   remove_empty_rows |-> FALSE, remove_duplicates |-> FALSE,
                   merge_headers |-> FALSE]
    /\ lineedit_sort_column = <<"A">>
    /\ verification_enabled = TRUE

\* the texts typed into the sort column field
SortTexts == { <<"A">>, <<"B">>, <<"C">> }

FileNames == { f.name : f \in Directory }

\* the window once the user has selected files, set the options and switched
\* the preliminary verification off (toggle_verification); the sort column
\* field keeps its initial text "A" while sorting is not ticked, and the
\* merge-headers box, which neither compile_files nor the worker reads, is
\* left unticked
Init ==
    /\ list_files \in InjSeqs(FileNames, 1, MaxFiles)
    /\ spinbox_header_start \in 1..MaxHeaderStart
    /\ spinbox_header \in 1..MaxHeaderRows
    /\ checkbox \in [add_filename : BOOLEAN, sort_data : BOOLEAN, repeat_header : BOOLEAN,
                     remove_empty_rows : BOOLEAN, remove_duplicates : BOOLEAN,
                     merge_headers : {FALSE}]
    /\ lineedit_sort_column \in SortTexts
    /\ (~checkbox.sort_data => lineedit_sort_column = <<"A">>)
    /\ verification_enabled = FALSE
    /\ worker = NoWorker
    /\ pc = "idle"
    /\ RunStart
    /\ AppIdle
    /\ FnIdle

\* compile_files with the preliminary verification switched off
compile_files ==
    /\ pc = "idle"
    /\ list_files # << >>
    /\ ~verification_enabled
    /\ worker' = [files |-> list_files,
                  header_start_row |-> spinbox_header_start,
                  header_rows |-> spinbox_header,
                  add_filename |-> checkbox.add_filename,
                  sort_data |-> checkbox.sort_data,
                  sort_column |-> get_sort_column_index(lineedit_sort_column),
                  repeat_headers |-> checkbox.repeat_header,
                  remove_empty_rows |-> checkbox.remove_empty_rows,
                  remove_duplicates |-> checkbox.remove_duplicates]
    /\ pc' = "run"
    /\ button_compile' = FALSE
    /\ threads' = threads + 1
    /\ UNCHANGED <<gui_vars, run_vars, fn_vars, lang_vars, open_handles, dialog,
                   output_file, compatible_files, incompatible_files>>

\* the file of the current loop iteration
CurrentFile == FileNamed(worker.files[i + 1])

\* UpdatedHeaders with the test inverted
UpdatedHeaders_inverted(old, file_headers) == IF ~old.isNone THEN file_headers ELSE old

\* headers after a file was read: the first result sets it
UpdatedHeaders(old, file_headers) == IF old.isNone THEN file_headers ELSE old

\* merged_cells after a file was read: set together with headers
UpdatedMergedCells(old_headers, old, file_merged_cells) ==
    IF old_headers.isNone THEN file_merged_cells ELSE old

\* one iteration of the loop of run, the file is read
run_file ==
    /\ pc = "run"
    /\ i < Len(worker.files)
    /\ FileError(CurrentFile) = ""
    /\ LET result == ReadFile(worker, CurrentFile, i, headers, preliminary_info)
       IN  /\ headers' = UpdatedHeaders(headers, result.file_headers)
           /\ merged_cells' = UpdatedMergedCells(headers, merged_cells, result.file_merged_cells)
           /\ combined_data' = combined_data \o result.file_data
           /\ successful_files' = Append(successful_files, CurrentFile.name)
           /\ preliminary_info' = result.preliminary_info
    /\ events' = Append(events, Signal("progress", i + 1, "", ""))
    /\ i' = i + 1
    /\ UNCHANGED <<gui_vars, app_vars, worker, pc, failed_files, fn_vars>>

\* run_except without the record in failed_files
run_except_unrecorded ==
    /\ pc = "run"
    /\ i < Len(worker.files)
    /\ FileError(CurrentFile) # ""
    /\ events' = Append(events, Signal("error", 0, CurrentFile.name, FileError(CurrentFile)))
    /\ i' = i + 1
    /\ UNCHANGED <<gui_vars, app_vars, worker, pc, combined_data, headers, merged_cells,
                   preliminary_info, successful_files, failed_files, fn_vars>>

\* run_except leaving the loop
run_except_break ==
    /\ pc = "run"
    /\ i < Len(worker.files)
    /\ FileError(CurrentFile) # ""
    /\ failed_files' = Append(failed_files, <<CurrentFile.name, FileError(CurrentFile)>>)
    /\ events' = Append(events, Signal("error", 0, CurrentFile.name, FileError(CurrentFile)))
    /\ i' = Len(worker.files)
    /\ UNCHANGED <<gui_vars, app_vars, worker, pc, combined_data, headers, merged_cells,
                   preliminary_info, successful_files, fn_vars>>

\* run_except with a row of the failed file left in the preamble
run_except_leaking ==
    /\ pc = "run"
    /\ i < Len(worker.files)
    /\ FileError(CurrentFile) # ""
    /\ failed_files' = Append(failed_files, <<CurrentFile.name, FileError(CurrentFile)>>)
    /\ events' = Append(events, Signal("error", 0, CurrentFile.name, FileError(CurrentFile)))
    /\ preliminary_info' = Append(preliminary_info, <<None>>)
    /\ i' = i + 1
    /\ UNCHANGED <<gui_vars, app_vars, worker, pc, combined_data, headers, merged_cells,
                   successful_files, fn_vars>>

\* one iteration of the loop of run, processing the file raises
run_except ==
    /\ pc = "run"
    /\ i < Len(worker.files)
    /\ FileError(CurrentFile) # ""
    /\ failed_files' = Append(failed_files, <<CurrentFile.name, FileError(CurrentFile)>>)
    /\ events' = Append(events, Signal("error", 0, CurrentFile.name, FileError(CurrentFile)))
    /\ i' = i + 1
    /\ UNCHANGED <<gui_vars, app_vars, worker, pc, combined_data, headers, merged_cells,
                   preliminary_info, successful_files, fn_vars>>

\* if combined_data and headers
HasResult(data, hdrs) == data # << >> /\ ~hdrs.isNone /\ hdrs.rows # << >>

\* the last header row, headers[-1]
LastHeader(hdrs) == hdrs.rows[Len(hdrs.rows)]

\* combined_data after the post-compilation treatment
PostData(w, data, hdrs) ==
    LET unique == IF w.remove_duplicates THEN _remove_duplicate_rows(data) ELSE data
    IN  IF ~HasResult(data, hdrs) THEN data
        ELSE IF w.sort_data /\ w.sort_column < Len(LastHeader(hdrs))
        THEN _sort_data(w, unique)
        ELSE unique

\* PostHeaders appending the label to every header row
PostHeaders_every(w, data, hdrs) ==
    IF HasResult(data, hdrs) /\ w.add_filename
    THEN Headers([r \in 1..Len(hdrs.rows) |-> Append(hdrs.rows[r], Str("Fichier source"))])
    ELSE hdrs

\* headers after the post-compilation treatment
PostHeaders(w, data, hdrs) ==
    IF HasResult(data, hdrs) /\ w.add_filename
    THEN Headers([hdrs.rows EXCEPT ![Len(hdrs.rows)] = Append(@, Str("Fichier source"))])
    ELSE hdrs

\* run_finished returning without the finished signal
run_finished_silent ==
    /\ pc = "run"
    /\ i = Len(worker.files)
    /\ combined_data' = PostData(worker, combined_data, headers)
    /\ headers' = PostHeaders(worker, combined_data, headers)
    /\ pc' = "done"
    /\ threads' = threads - 1
    /\ UNCHANGED <<gui_vars, worker, i, merged_cells, preliminary_info,
                   successful_files, failed_files, events, fn_vars, lang_vars,
                   open_handles, button_compile, dialog, output_file,
                   compatible_files, incompatible_files>>

\* the end of run: post-compilation treatment, then the finished signal
run_finished ==
    /\ pc = "run"
    /\ i = Len(worker.files)
    /\ combined_data' = PostData(worker, combined_data, headers)
    /\ headers' = PostHeaders(worker, combined_data, headers)
    /\ events' = Append(events, Signal("finished", 0, "", ""))
    /\ pc' = "done"
    /\ threads' = threads - 1
    /\ UNCHANGED <<gui_vars, worker, i, merged_cells, preliminary_info,
                   successful_files, failed_files, fn_vars, lang_vars,
                   open_handles, button_compile, dialog, output_file,
                   compatible_files, incompatible_files>>

Next == compile_files \/ run_file \/ run_except \/ run_finished

Spec == Init /\ [][Next]_vars

\* a step of the worker thread can be taken: the thread was started by
\* compile_files and run has not returned; this is ENABLED of the action
\* run_file \/ run_except \/ run_finished, one of which can act at every
\* position of the loop and each of which changes i or pc
WorkerEnabled == pc = "run"

\* Spec with the worker thread scheduled until run returns, the user being
\* under no obligation to start a compilation: weak fairness of the action
\* run_file \/ run_except \/ run_finished, in the form WF_v(A) stands for,
\* []<>(~ENABLED <<A>>_v) \/ []<><<A>>_v, where a step of A is a step from a
\* state in which the worker can act
LiveSpec == Spec /\ ([]<>(~WorkerEnabled) \/ []<><<WorkerEnabled>>_vars)

(***************************************************************************)
(* Properties of the compilation, checked under Spec.                      *)
(***************************************************************************)
\* the file opens and has an extension the worker reads
Readable(name) ==
    LET f == FileNamed(name)
    IN  f.ext \in {"xlsx", "xls", "csv"} /\ f.err = ""

\* the positions of the worker's file list whose file is readable
ReadablePositions == { k \in 1..Len(worker.files) : Readable(worker.files[k]) }

Min(set) == CHOOSE m \in set : \A n \in set : m <= n

\* the header block of a file: its rows header_start_row .. header_start_row +
\* header_rows - 1; a worksheet gives empty cells for a missing row, a CSV
\* table has no row past its end
HeaderRowsOf(name) ==
    LET f == FileNamed(name)
        hs == worker.header_start_row
        hr == worker.header_rows
    IN  IF f.ext = "csv"
        THEN SubSeq(f.rows, hs, IF hs + hr - 1 < Len(f.rows) THEN hs + hr - 1 ELSE Len(f.rows))
        ELSE [r \in 1..hr |-> IF hs + r - 1 <= Len(f.rows) THEN f.rows[hs + r - 1]
                               ELSE [c \in 1..Len(f.rows[1]) |-> None]]

\* the data rows of a file: every row after the header block, with the file
\* name as last cell when the source label is requested
DataRowsOf(name) ==
    LET f == FileNamed(name)
        first == worker.header_start_row + worker.header_rows
        raw == SubSeq(f.rows, first, Len(f.rows))
    IN  [k \in 1..Len(raw) |->
            IF worker.add_filename THEN raw[k] \o <<Str(f.name)>> ELSE raw[k]]

\* rows with the label "Fichier source" appended to the last one
Labelled(rows) ==
    [r \in 1..Len(rows) |->
        IF r = Len(rows) THEN rows[r] \o <<Str("Fichier source")>> ELSE rows[r]]

\* C1 as stated: when run has finished, headers is exactly the header block
\* of the first readable file of the list (None when no file is readable).
C1_HeaderExactlyFirstRead ==
    pc = "done" =>
        IF ReadablePositions = {} THEN headers.isNone
        ELSE /\ ~headers.isNone
             /\ headers.rows = HeaderRowsOf(worker.files[Min(ReadablePositions)])

\* the header of the first readable file, as the finished run emits it
C1_Final ==
    pc = "done" =>
        IF ReadablePositions = {} THEN headers.isNone
        ELSE LET extracted == HeaderRowsOf(worker.files[Min(ReadablePositions)])
             IN  /\ ~headers.isNone
                 /\ headers.rows =
                       IF worker.add_filename /\ combined_data # << >> /\ extracted # << >>
                       THEN Labelled(extracted)
                       ELSE extracted

\* C1 amended: the emitted header is the header block of the first readable
\* file of the list, with "Fichier source" appended to its last row when
\* add_filename is set and the result has rows and a header row; once a file
\* has set the header, no later file of the loop changes it.
C1_HeaderFromFirstRead ==
    /\ [](C1_Final)
    /\ [][(~headers.isNone /\ pc' = "run") => headers' = headers]_vars

\* C1 witness: the first file failed, the second set the header, a third
\* was read after it, and the label was appended.
C1_Witness ==
    /\ pc = "done"
    /\ Len(worker.files) = 3
    /\ ~Readable(worker.files[1])
    /\ Readable(worker.files[2])
    /\ Readable(worker.files[3])
    /\ worker.add_filename
    /\ combined_data # << >>
    /\ headers.rows = Labelled(HeaderRowsOf(worker.files[2]))
    /\ HeaderRowsOf(worker.files[2]) # HeaderRowsOf(worker.files[3])

Elems(seq) == { seq[k] : k \in 1..Len(seq) }

\* the file names of failed_files, in order
FailedNames == [k \in 1..Len(failed_files) |-> failed_files[k][1]]

\* C3: at the end of a run successful_files and the names of failed_files
\* partition the file list, each in file-list order.
C3_Partition ==
    pc = "done" =>
        /\ Elems(successful_files) \cup Elems(FailedNames) = Elems(worker.files)
        /\ Elems(successful_files) \cap Elems(FailedNames) = {}
        /\ successful_files =
              Pick(worker.files, { k \in 1..Len(worker.files) :
                                      worker.files[k] \in Elems(successful_files) })
        /\ FailedNames =
              Pick(worker.files, { k \in 1..Len(worker.files) :
                                      worker.files[k] \in Elems(FailedNames) })

\* C3 witness: a finished run with two read files and one failed file.
C3_Witness ==
    /\ pc = "done"
    /\ Len(successful_files) = 2
    /\ Len(failed_files) = 1
    /\ worker.files[2] = failed_files[1][1]

\* the error signals emitted so far
ErrorSignals == SelectSeq(events, LAMBDA e : e.sig = "error")

\* a step of the loop on a file that raises: recorded, signalled once, the
\* rows kept and the loop goes on
C4_Step ==
    (pc = "run" /\ i < Len(worker.files) /\ ~Readable(worker.files[i + 1])) =>
        /\ Len(failed_files') = Len(failed_files) + 1
        /\ SubSeq(failed_files', 1, Len(failed_files)) = failed_files
        /\ failed_files'[Len(failed_files')][1] = worker.files[i + 1]
        /\ failed_files'[Len(failed_files')][2] # ""
        /\ Len(events') = Len(events) + 1
        /\ SubSeq(events', 1, Len(events)) = events
        /\ events'[Len(events')].sig = "error"
        /\ events'[Len(events')].file = worker.files[i + 1]
        /\ events'[Len(events')].reason = failed_files'[Len(failed_files')][2]
        /\ combined_data' = combined_data
        /\ successful_files' = successful_files
        /\ i' = i + 1
        /\ pc' = "run"

\* at the end every file was processed and the error signals are those of
\* the files that raised, one each
C4_Final ==
    pc = "done" =>
        /\ i = Len(worker.files)
        /\ Len(ErrorSignals) = Len(failed_files)
        /\ \A k \in 1..Len(failed_files) : ErrorSignals[k].file = failed_files[k][1]
        /\ \A k \in 1..Len(worker.files) :
              IF Readable(worker.files[k])
              THEN worker.files[k] \in Elems(successful_files)
              ELSE worker.files[k] \in Elems(FailedNames)

\* C4: an error raised while a file is processed is caught in the loop,
\* recorded as (file, reason) in failed_files, signalled by exactly one
\* error event, and the run goes on: the rows read so far are kept and
\* every later file is processed.
C4_ErrorsDoNotAbort == [](C4_Final) /\ [][C4_Step]_vars

\* C4 witness: the second of three files raised, the first and the third
\* were read and their rows are in the result.
C4_Witness ==
    /\ pc = "done"
    /\ Len(worker.files) = 3
    /\ ~Readable(worker.files[2])
    /\ successful_files = <<worker.files[1], worker.files[3]>>
    /\ Len(ErrorSignals) = 1
    /\ ~worker.sort_data /\ ~worker.remove_duplicates
    /\ DataRowsOf(worker.files[1]) # << >>
    /\ DataRowsOf(worker.files[3]) # << >>
    /\ Len(combined_data) >= 2

\* the progress signals emitted so far
ProgressSignals == SelectSeq(events, LAMBDA e : e.sig = "progress")

\* C5: a run over n files emits n progress events, one per file whether it
\* was read or failed, the i-th carrying i.
C5_OneProgressPerFile ==
    pc = "done" =>
        /\ Len(ProgressSignals) = Len(worker.files)
        /\ \A k \in 1..Len(ProgressSignals) : ProgressSignals[k].n = k

\* C6: a file with fewer than header_start_row + header_rows rows is
\* recorded in failed_files and never in successful_files.
C6_ShortFileFails ==
    pc = "done" =>
        \A k \in 1..Len(worker.files) :
            (/\ Readable(worker.files[k])
             /\ Len(FileNamed(worker.files[k]).rows)
                   < worker.header_start_row + worker.header_rows)
            => /\ worker.files[k] \in Elems(FailedNames)
               /\ worker.files[k] \notin Elems(successful_files)

LastRow(rows) == rows[Len(rows)]

\* the cells of column k (0-based) can be ordered: every row has the cell
\* and the cells that are not None have one type
Comparable(rows, k) ==
    /\ \A r \in 1..Len(rows) : Len(rows[r]) > k
    /\ \A r, q \in 1..Len(rows) :
          (rows[r][k + 1] # None /\ rows[q][k + 1] # None)
          => rows[r][k + 1].t = rows[q][k + 1].t

\* rows are in non-decreasing order of cell k (0-based), None last
OrderedBy(rows, k) ==
    \A r, q \in 1..Len(rows) :
        r < q =>
            \/ rows[q][k + 1] = None
            \/ (rows[r][k + 1] # None /\ rows[r][k + 1].v <= rows[q][k + 1].v)

\* C9: with sort enabled in flat mode and the column entered as the letter
\* of 0-based column k, k within the header width, the emitted rows are in
\* non-decreasing order of cell k, None last (stated for rows whose cells k
\* can be ordered, so that the sort cannot fall back on an exception).
C9_SortedByEnteredColumn ==
    \A k \in 0..25 :
        (/\ pc = "done"
         /\ worker.sort_data
         /\ ~worker.repeat_headers
         /\ lineedit_sort_column = <<Letters[k + 1]>>
         /\ HasResult(combined_data, headers)
         /\ k < Len(LastRow(HeaderRowsOf(worker.files[Min(ReadablePositions)])))
         /\ Comparable(combined_data, k))
        => OrderedBy(combined_data, k)

\* a cell is None or a string that is empty once trimmed
Blank(cell) == cell = None \/ (cell.t = "str" /\ Text[cell.v] \in {"", " "})

\* the rows of a file after its header block, as the sheet holds them
RawRowsOf(name) ==
    LET f == FileNamed(name)
    IN  SubSeq(f.rows, worker.header_start_row + worker.header_rows, Len(f.rows))

\* the data rows a file contributes: with remove_empty_rows, the rows that
\* have a cell that is not blank, the source label not counted
KeptRowsOf(name) ==
    Pick(DataRowsOf(name),
         { k \in 1..Len(RawRowsOf(name)) :
              \/ ~worker.remove_empty_rows
              \/ \E c \in 1..Len(RawRowsOf(name)[k]) : ~Blank(RawRowsOf(name)[k][c]) })

\* the rows of the readable files, in list order
MergedRows ==
    Concat([k \in 1..Len(worker.files) |->
               IF Readable(worker.files[k]) THEN KeptRowsOf(worker.files[k]) ELSE << >>])

\* the header block of the first readable file
ExtractedHeader == HeaderRowsOf(worker.files[Min(ReadablePositions)])

\* the rows handed to the sort: the merged rows, deduplicated when requested
PreSortRows ==
    IF worker.remove_duplicates THEN _remove_duplicate_rows(MergedRows) ELSE MergedRows

\* the run sorts: there are rows and a header, sort_data is set and the
\* sort column is within the width of the last header row
SortApplies ==
    /\ ReadablePositions # {}
    /\ MergedRows # << >>
    /\ ExtractedHeader # << >>
    /\ worker.sort_data
    /\ worker.sort_column < Len(LastRow(ExtractedHeader))

\* the sections of rows in sectioned mode, the whole list in flat mode, and
\* for each the rows that are sorted
SortedGroups(rows) ==
    IF worker.repeat_headers
    THEN LET sections == SplitSections(rows, 1, << >>, << >>)
         IN  [s \in 1..Len(sections) |-> SectionDataRows(worker, sections[s])]
    ELSE <<rows>>

\* sorting the group raises: a row has no cell at the sort index, or two
\* of its sort cells that are not None have different types
GroupFails(group) == SortRaises(group, worker.sort_column - 1)

\* C13: when the sort raises, in flat mode or in any section of sectioned
\* mode, the finished run emits the rows in their order before the sort,
\* and the finished signal is the last signal of the run.
C13_SortErrorKeepsOrder ==
    (/\ pc = "done"
     /\ SortApplies
     /\ \E g \in 1..Len(SortedGroups(PreSortRows)) : GroupFails(SortedGroups(PreSortRows)[g]))
    => /\ combined_data = PreSortRows
       /\ events[Len(events)].sig = "finished"
       /\ Len(SelectSeq(events, LAMBDA e : e.sig = "finished")) = 1

\* C13 witness: in sectioned mode the sort of one section raised while
\* another section could be sorted and was out of order; the rows came out
\* as they were.
C13_Witness ==
    /\ pc = "done"
    /\ SortApplies
    /\ worker.repeat_headers
    /\ \E g, h \in 1..Len(SortedGroups(PreSortRows)) :
          /\ GroupFails(SortedGroups(PreSortRows)[g])
          /\ ~GroupFails(SortedGroups(PreSortRows)[h])
          /\ PySorted(SortedGroups(PreSortRows)[h], worker.sort_column - 1)
                # SortedGroups(PreSortRows)[h]
    /\ combined_data = PreSortRows

\* every data row of the readable files, in list order, blank rows included
AllRows ==
    Concat([k \in 1..Len(worker.files) |->
               IF Readable(worker.files[k]) THEN DataRowsOf(worker.files[k]) ELSE << >>])

\* a merged row is empty: its cells, the source label not counted, are blank
EmptyRow(row) ==
    \A c \in 1..(Len(row) - (IF worker.add_filename THEN 1 ELSE 0)) : Blank(row[c])

\* C15: with remove_empty_rows set (sort and deduplication off) the emitted
\* rows are the data rows of the readable files less exactly the rows whose
\* cells, the appended source label not counted, are all None or blank.
C15_EmptyRowsDropped ==
    (pc = "done" /\ worker.remove_empty_rows /\ ~worker.sort_data /\ ~worker.remove_duplicates)
    => /\ combined_data = MergedRows
       /\ \A k \in 1..Len(AllRows) :
             (AllRows[k] \in Elems(combined_data)) <=> ~EmptyRow(AllRows[k])

\* C15 witness: with the source label appended, a row that was blank but
\* for its label was dropped, and a row whose only other cell that is not
\* blank is its last data cell was kept.
C15_Witness ==
    /\ pc = "done"
    /\ worker.remove_empty_rows /\ ~worker.sort_data /\ ~worker.remove_duplicates
    /\ worker.add_filename
    /\ \E k, l \in 1..Len(AllRows) :
          /\ \A c \in 1..(Len(AllRows[k]) - 1) : AllRows[k][c] = None
          /\ AllRows[k] \notin Elems(combined_data)
          /\ \A c \in 1..(Len(AllRows[l]) - 2) : AllRows[l][c] = None
          /\ AllRows[l][Len(AllRows[l]) - 1] # None
          /\ AllRows[l] \in Elems(combined_data)

\* the passes in the order deduplicate, sort, empty-row filter, each one
\* applied when it is enabled
DedupPass(rows) == IF worker.remove_duplicates THEN _remove_duplicate_rows(rows) ELSE rows

SortPass(rows) ==
    IF worker.sort_data /\ worker.sort_column < Len(LastRow(ExtractedHeader))
    THEN _sort_data(worker, rows)
    ELSE rows

FilterPass(rows) ==
    IF worker.remove_empty_rows THEN SelectSeq(rows, LAMBDA row : ~EmptyRow(row)) ELSE rows

\* C14: the emitted rows are filter(sort(dedup(rows))) over all the data rows
\* of the readable files: the blank rows are still there when the sort runs
\* and are removed after it.
C14_FilterAfterSort ==
    (pc = "done" /\ ReadablePositions # {} /\ ExtractedHeader # << >>)
    => combined_data = FilterPass(SortPass(DedupPass(AllRows)))

\* C17: when the first file of the list is a spreadsheet that was read, the
\* captured spans are, as a set, the merged ranges of its sheet whose top
\* row is at most header_start_row + header_rows - 1, the last header row.
C17_SpansOfHeaderBlock ==
    (/\ pc = "done"
     /\ Readable(worker.files[1])
     /\ FileNamed(worker.files[1]).ext \in {"xlsx", "xls"})
    => Elems(merged_cells) =
          { r \in Elems(FileNamed(worker.files[1]).merged) :
               r.min_row <= worker.header_start_row + worker.header_rows - 1 }

\* the step that ends run; its unprimed state is the state after the loop
C19_Step ==
    (pc = "run" /\ pc' = "done") =>
        IF combined_data # << >> /\ ~headers.isNone /\ headers.rows # << >>
           /\ worker.add_filename
        THEN /\ ~headers'.isNone
             /\ Len(headers'.rows) = Len(headers.rows)
             /\ \A r \in 1..Len(headers.rows) :
                   headers'.rows[r] =
                      IF r = Len(headers.rows)
                      THEN headers.rows[r] \o <<Str("Fichier source")>>
                      ELSE headers.rows[r]
        ELSE headers' = headers

\* C19: when the loop has left rows and a header and add_filename is set,
\* "Fichier source" is appended once to the last header row and to no other
\* row, the last row getting one cell longer; otherwise the header is
\* emitted as it is.
C19_LabelOnLastHeaderRow == [][C19_Step]_vars

\* C19 witness: a header of two rows was emitted, its last row one cell
\* longer than the one read from the file and ending with the label, its
\* first row as read.
C19_Witness ==
    /\ pc = "done"
    /\ worker.add_filename
    /\ combined_data # << >>
    /\ Len(headers.rows) = 2
    /\ headers.rows[1] = ExtractedHeader[1]
    /\ Len(headers.rows[2]) = Len(ExtractedHeader[2]) + 1
    /\ LastRow(headers.rows[2]) = Str("Fichier source")

\* C20: in an emitted result with rows and a header, every data row has the
\* length of the last header row (the source label counted in both).
C20_RowsAsWideAsHeader ==
    (pc = "done" /\ combined_data # << >> /\ ~headers.isNone /\ headers.rows # << >>)
    => \A k \in 1..Len(combined_data) :
          Len(combined_data[k]) = Len(LastRow(headers.rows))

\* the rows of a file strictly before the header start row, in order: a
\* worksheet gives empty cells for a missing row, a CSV table has no row past
\* its end
PreambleRowsOf(name) ==
    LET f == FileNamed(name)
        hs == worker.header_start_row
    IN  IF f.ext = "csv"
        THEN SubSeq(f.rows, 1, IF hs - 1 < Len(f.rows) THEN hs - 1 ELSE Len(f.rows))
        ELSE [r \in 1..(hs - 1) |-> IF r <= Len(f.rows) THEN f.rows[r]
                                     ELSE [c \in 1..Len(f.rows[1]) |-> None]]

\* C25: once the first file of the list has been processed the preamble is
\* the rows of that file above the header start row when header_start_row > 1
\* and the file was read, and empty otherwise (header_start_row = 1, or the
\* first file failed); before that it is empty; a preamble that is not empty
\* goes with a header taken from the same file, the first of the list.
C25_PreambleFromFirstFile ==
    pc \in {"run", "done"} =>
        /\ preliminary_info =
              IF i >= 1 /\ worker.header_start_row > 1 /\ Readable(worker.files[1])
              THEN PreambleRowsOf(worker.files[1])
              ELSE << >>
        /\ preliminary_info # << >> =>
              /\ ~headers.isNone
              /\ Min(ReadablePositions) = 1
              /\ successful_files[1] = worker.files[1]

\* C25 witness: a run of two read files with header_start_row > 1 has ended
\* with the rows above the header of the first file as preamble, the second
\* file having other rows above its header.
C25_Witness ==
    /\ pc = "done"
    /\ worker.header_start_row > 1
    /\ Len(successful_files) >= 2
    /\ successful_files[1] = worker.files[1]
    /\ preliminary_info = PreambleRowsOf(worker.files[1])
    /\ preliminary_info # << >>
    /\ PreambleRowsOf(successful_files[2]) # << >>
    /\ PreambleRowsOf(successful_files[2]) # PreambleRowsOf(worker.files[1])

\* C28: a step of run that adds a file to failed_files leaves the rows, the
\* header, the preamble and the merged spans gathered so far as they were,
\* and adds nothing to successful_files.
C28_FailedFileContributesNothing ==
    [][failed_files' # failed_files =>
          /\ combined_data' = combined_data
          /\ headers' = headers
          /\ preliminary_info' = preliminary_info
          /\ merged_cells' = merged_cells
          /\ successful_files' = successful_files]_vars

\* C28 witness: a file has failed after a file that gave rows, a header, a
\* preamble and merged spans, and the run went on to read another file.
C28_Witness ==
    /\ pc = "run"
    /\ i = 3
    /\ Len(failed_files) = 1
    /\ failed_files[1][1] = worker.files[2]
    /\ Len(successful_files) = 2
    /\ DataRowsOf(worker.files[1]) # << >>
    /\ preliminary_info = PreambleRowsOf(worker.files[1])
    /\ preliminary_info # << >>
    /\ merged_cells # << >>
    /\ ~headers.isNone

\* the positions of events that hold the finished signal
FinishedSignals == { k \in 1..Len(events) : events[k].sig = "finished" }

\* the finished signal has been emitted once and is the last event
FinishedLast == FinishedSignals = { Len(events) } /\ events # << >>

\* C22: a run emits at most one finished signal, nothing after it, a run
\* that has returned has emitted it, and every run that was started ends
\* with the finished signal emitted, whatever the files and options.
C22_OneTerminalEvent ==
    /\ [](/\ Cardinality(FinishedSignals) <= 1
          /\ FinishedSignals # {} => FinishedLast
          /\ pc = "done" <=> FinishedSignals # {})
    /\ (pc = "run" ~> FinishedLast)

\* C22 witness: a run has ended with the finished signal after progress and
\* error signals, with a sort that raised along the way.
C22_Witness ==
    /\ pc = "done"
    /\ FinishedLast
    /\ ProgressSignals # << >>
    /\ ErrorSignals # << >>
    /\ worker.sort_data /\ worker.remove_duplicates
    /\ SortRaises(combined_data, worker.sort_column - 1)

\* the block the repeat-headers option describes: one separator row that is
\* entirely None, then the header rows, each as wide as a data row
RepeatedBlock ==
    LET width == Len(LastRow(ExtractedHeader)) + (IF worker.add_filename THEN 1 ELSE 0)
    IN  << [c \in 1..width |-> None] >>
        \o [r \in 1..Len(ExtractedHeader) |->
              IF worker.add_filename THEN Append(ExtractedHeader[r], None)
              ELSE ExtractedHeader[r]]

\* C27 as stated: with repeat_headers set (and no sort, deduplication or
\* empty-row removal to move rows), the rows of every readable file after the
\* first readable one are preceded in the emitted rows by the separator row
\* and the header rows, and the rows of the first readable file are not.
C27_BlockBeforeLaterFiles ==
    (pc = "done" /\ worker.repeat_headers /\ ~worker.sort_data
                 /\ ~worker.remove_duplicates /\ ~worker.remove_empty_rows) =>
        combined_data =
            Concat([k \in 1..Len(worker.files) |->
                       IF ~Readable(worker.files[k]) THEN << >>
                       ELSE IF k = Min(ReadablePositions) THEN DataRowsOf(worker.files[k])
                       ELSE RepeatedBlock \o DataRowsOf(worker.files[k])])

(***************************************************************************)
(* get_sort_column_index on its own: the text field holds any text of the  *)
(* characters below, the function is applied to it.                        *)
(***************************************************************************)
Chars == {"A", "B", "Z", "a", " ", "0", "1", "2", "-"}

InitColumn ==
    /\ list_files = << >>
    /\ spinbox_header_start = 1
    /\ spinbox_header = 1
    /\ checkbox = [add_filename |-> TRUE, sort_data |-> TRUE, repeat_header |-> FALSE,
                   remove_empty_rows |-> FALSE, remove_duplicates |-> FALSE,
                   merge_headers |-> FALSE]
    /\ lineedit_sort_column \in BSeqs(Chars, 0, MaxTextLen)
    /\ verification_enabled = TRUE
    /\ worker = NoWorker
    /\ pc = "call"
    /\ RunStart
    /\ AppIdle
    /\ FnIdle

call_get_sort_column_index ==
    /\ pc = "call"
    /\ fn_ret' = get_sort_column_index(lineedit_sort_column)
    /\ pc' = "return"
    /\ UNCHANGED <<gui_vars, app_vars, worker, run_vars, fn_arg>>

SpecColumn == InitColumn /\ [][call_get_sort_column_index]_vars

\* the column number of a letter designator, A = 1, Z = 26, AA = 27
RECURSIVE Bijective26(_)
Bijective26(text) ==
    IF text = << >> THEN 0
    ELSE 26 * Bijective26(SubSeq(text, 1, Len(text) - 1)) + LetterIndex(text[Len(text)]) + 1

\* C8: get_sort_column_index maps a column designator to its 0-based index
\* by bijective base 26 (case-insensitive, blanks around ignored), a numeral
\* n >= 1 to n - 1, and never returns a negative index.
C8_ColumnIndex ==
    pc = "return" =>
        LET text == upper(strip(lineedit_sort_column))
        IN  /\ (text # << >> /\ \A k \in 1..Len(text) : IsLetter(text[k]))
                  => fn_ret = Bijective26(text) - 1
            /\ (AllDigits(text) /\ DigitsValue(text) >= 1)
                  => fn_ret = DigitsValue(text) - 1
            /\ fn_ret >= 0

(***************************************************************************)
(* FileVerification on its own: one file of the shapes below is verified   *)
(* by the function its extension selects.                                  *)
(***************************************************************************)
\* a table of n rows of one cell
Table(n) == [r \in 1..n |-> <<I(1)>>]

\* a worksheet has at least one row, a CSV file may have none
VerifiedFiles ==
    { [name |-> "f1.xlsx", ext |-> "xlsx", err |-> e, rows |-> Table(n), merged |-> << >>,
       protected |-> p, utf8 |-> TRUE] :
         e \in {"", "PermissionError", "Exception"}, n \in 1..MaxVerifyRows, p \in BOOLEAN }
    \cup
    { [name |-> "f3.csv", ext |-> "csv", err |-> e, rows |-> Table(n), merged |-> << >>,
       protected |-> FALSE, utf8 |-> u] :
         e \in {"", "PermissionError", "Exception"}, n \in 0..MaxVerifyRows, u \in BOOLEAN }

InitVerify ==
    /\ GuiIdle
    /\ worker = NoWorker
    /\ pc = "call"
    /\ RunStart
    /\ AppIdle
    /\ fn_arg \in [file : VerifiedFiles, header_start_row : 1..MaxHeaderStart,
                   header_rows : 1..MaxHeaderRows]
    /\ fn_ret = << >>

call_verify ==
    /\ pc = "call"
    /\ fn_ret' = IF fn_arg.file.ext = "csv"
                 THEN verify_csv_file(fn_arg.file, fn_arg.header_start_row, fn_arg.header_rows)
                 ELSE verify_excel_file(fn_arg.file, fn_arg.header_start_row, fn_arg.header_rows)
    /\ open_handles' =
          IF IF fn_arg.file.ext = "csv"
             THEN verify_csv_file_open(fn_arg.file, fn_arg.header_start_row,
                                       fn_arg.header_rows)
             ELSE verify_excel_file_open(fn_arg.file, fn_arg.header_start_row,
                                         fn_arg.header_rows)
          THEN open_handles \cup {fn_arg.file.name}
          ELSE open_handles
    /\ pc' = "return"
    /\ UNCHANGED <<gui_vars, lang_vars, win_vars, worker, run_vars, fn_arg>>

SpecVerify == InitVerify /\ [][call_verify]_vars

\* the verified file opens and its sheet is not protected
Sound(f) == f.err = "" /\ ~f.protected

\* C7 as stated: a readable, unprotected file is accepted exactly when it
\* has at least header_start_row + header_rows - 1 rows, and is otherwise
\* rejected with a reason naming its row count.
C7_AcceptsHeaderOnly ==
    (pc = "return" /\ Sound(fn_arg.file)) =>
        /\ fn_ret.is_compatible
              <=> Len(fn_arg.file.rows) >= fn_arg.header_start_row + fn_arg.header_rows - 1
        /\ ~fn_ret.is_compatible
              => /\ fn_ret.reason = "Structure d'en-tete incompatible"
                 /\ fn_ret.lines = Len(fn_arg.file.rows)

\* C7 amended: a readable, unprotected file is accepted exactly when it has
\* at least header_start_row + header_rows rows, the header block and one
\* row after it; it is otherwise rejected with a reason naming its row count.
C7_AcceptsWithDataRow ==
    (pc = "return" /\ Sound(fn_arg.file)) =>
        /\ fn_ret.is_compatible
              <=> Len(fn_arg.file.rows) >= fn_arg.header_start_row + fn_arg.header_rows
        /\ ~fn_ret.is_compatible
              => /\ fn_ret.reason = "Structure d'en-tete incompatible"
                 /\ fn_ret.lines = Len(fn_arg.file.rows)

\* C7 witness: a worksheet that ends with its header block was rejected
\* with its row count.
C7_Witness ==
    /\ pc = "return"
    /\ Sound(fn_arg.file)
    /\ fn_arg.file.ext = "xlsx"
    /\ Len(fn_arg.file.rows) = fn_arg.header_start_row + fn_arg.header_rows - 1
    /\ ~fn_ret.is_compatible
    /\ fn_ret.lines = Len(fn_arg.file.rows)

\* C23 as stated, for the verification: when verify_excel_file or
\* verify_csv_file has returned, on the compatible path, on a structure
\* mismatch, on a protected sheet or on an error, no file it opened is open.
C23_HandlesReleased == pc = "return" => open_handles = {}

(***************************************************************************)
(* _sort_data on its own: any list of the rows below is sorted by a worker *)
(* with any sort column and mode (header_rows is read in sectioned mode    *)
(* only, and is left at 1 in flat mode).                                   *)
(***************************************************************************)
SortRows ==
    { <<None, None>>, <<I(1), None>>, <<I(2), I(1)>>, <<Str("a"), I(1)>> }

InitSort ==
    /\ GuiIdle
    /\ worker = NoWorker
    /\ pc = "call"
    /\ RunStart
    /\ AppIdle
    /\ fn_arg \in [sort_column : 0..3, repeat_headers : BOOLEAN,
                   header_rows : 1..MaxHeaderRows,
                   data : BSeqs(SortRows, 0, MaxSortRows)]
    /\ (~fn_arg.repeat_headers => fn_arg.header_rows = 1)
    /\ fn_ret = << >>

call_sort_data ==
    /\ pc = "call"
    /\ fn_ret' = _sort_data(fn_arg, fn_arg.data)
    /\ pc' = "return"
    /\ UNCHANGED <<gui_vars, app_vars, worker, run_vars, fn_arg>>

SpecSort == InitSort /\ [][call_sort_data]_vars

\* the sort key of a row, x[sort_column - 1]; a row without that cell has none
KeyOf(row) ==
    IF IndexError(row, fn_arg.sort_column - 1) THEN [t |-> "missing", v |-> 0]
    ELSE At(row, fn_arg.sort_column - 1)

\* the number of the section of position p: the separator rows up to p in
\* sectioned mode, one section in flat mode
SectionOf(rows, p) ==
    IF fn_arg.repeat_headers THEN Cardinality({ q \in 1..p : AllNone(rows[q]) }) ELSE 0

\* the rows of a section that have a given key, in their order
SameKeyRows(rows, s, key) ==
    Pick(rows, { p \in 1..Len(rows) : SectionOf(rows, p) = s /\ KeyOf(rows[p]) = key })

\* C10: the sort is stable: the rows of one section (of the whole list in
\* flat mode) that have equal sort keys come out in their input order.
C10_SortIsStable ==
    pc = "return" =>
        /\ Len(fn_ret) = Len(fn_arg.data)
        /\ \A s \in { SectionOf(fn_arg.data, p) : p \in 1..Len(fn_arg.data) } :
           \A key \in { KeyOf(fn_arg.data[p]) : p \in 1..Len(fn_arg.data) } :
              SameKeyRows(fn_ret, s, key) = SameKeyRows(fn_arg.data, s, key)

\* C10 witness: the sort moved rows, two different rows of which have the
\* same key that is not None.
C10_Witness ==
    /\ pc = "return"
    /\ fn_ret # fn_arg.data
    /\ \E p, q \in 1..Len(fn_ret) :
          /\ p < q
          /\ fn_ret[p] # fn_ret[q]
          /\ KeyOf(fn_ret[p]) = KeyOf(fn_ret[q])
          /\ KeyOf(fn_ret[p]).t = "int"

\* the rank of position p among the positions of its section
RankInSection(rows, p) ==
    Cardinality({ q \in 1..p : SectionOf(rows, q) = SectionOf(rows, p) })

\* how many times row occurs in section s
CountIn(rows, s, row) ==
    Cardinality({ p \in 1..Len(rows) : SectionOf(rows, p) = s /\ rows[p] = row })

\* C12: in sectioned mode the sections keep their order and their extent,
\* every section keeps its own rows, and the first header_rows + 1 rows of
\* each section stay at their positions.
C12_SectionTopsFixed ==
    (pc = "return" /\ fn_arg.repeat_headers) =>
        /\ Len(fn_ret) = Len(fn_arg.data)
        /\ \A p \in 1..Len(fn_arg.data) :
              /\ SectionOf(fn_ret, p) = SectionOf(fn_arg.data, p)
              /\ RankInSection(fn_arg.data, p) <= fn_arg.header_rows + 1
                    => fn_ret[p] = fn_arg.data[p]
              /\ CountIn(fn_ret, SectionOf(fn_arg.data, p), fn_arg.data[p])
                    = CountIn(fn_arg.data, SectionOf(fn_arg.data, p), fn_arg.data[p])

\* C12 witness: in sectioned mode a list of two sections came out with the
\* rows below the top of its second section reordered.
C12_Witness ==
    /\ pc = "return"
    /\ fn_arg.repeat_headers
    /\ fn_ret # fn_arg.data
    /\ \E p \in 2..Len(fn_arg.data) :
          /\ AllNone(fn_arg.data[p])
          /\ \E q \in (p + 1)..Len(fn_arg.data) : fn_ret[q] # fn_arg.data[q]

\* the data rows of section s as the sectioned mode is described: every row
\* of the first section, which has no separator, and the rows below the
\* separator and the header block of a later section
SectionData(rows, s) ==
    Pick(rows, { p \in 1..Len(rows) :
                    /\ SectionOf(rows, p) = s
                    /\ (s = 0 \/ RankInSection(rows, p) > fn_arg.header_rows + 1) })

\* C26 as stated: in sectioned mode, when the sort cells of the data rows of
\* each section can be ordered, the data rows of every section, the first
\* one included, come out in non-decreasing order of the sort cell.
C26_SectionDataSorted ==
    (/\ pc = "return"
     /\ fn_arg.repeat_headers
     /\ fn_arg.sort_column >= 1
     /\ \A p \in 1..Len(fn_arg.data) :
           Comparable(SectionData(fn_arg.data, SectionOf(fn_arg.data, p)),
                      fn_arg.sort_column - 1))
    => \A p \in 1..Len(fn_ret) :
          OrderedBy(SectionData(fn_ret, SectionOf(fn_ret, p)), fn_arg.sort_column - 1)

(***************************************************************************)
(* _remove_duplicate_rows on its own: the function is applied to any list  *)
(* of the rows below.                                                      *)
(***************************************************************************)
DedupRows ==
    { <<None>>, <<Str("None")>>, <<I(1)>>, <<Str("1")>>, <<Str("a")>>, <<I(1), None>> }

InitDedup ==
    /\ GuiIdle
    /\ worker = NoWorker
    /\ pc = "call"
    /\ RunStart
    /\ AppIdle
    /\ fn_arg \in [data : BSeqs(DedupRows, 0, MaxDedupRows)]
    /\ fn_ret = << >>

call_remove_duplicate_rows ==
    /\ pc = "call"
    /\ fn_ret' = _remove_duplicate_rows(fn_arg.data)
    /\ pc' = "return"
    /\ UNCHANGED <<gui_vars, app_vars, worker, run_vars, fn_arg>>

SpecDedup == InitDedup /\ [][call_remove_duplicate_rows]_vars

\* two cells have the same string form, None having none
SameCell(a, b) ==
    IF a = None \/ b = None THEN a = b
    ELSE Text[PyStr(a).v] = Text[PyStr(b).v]

\* two rows are equal as tuples of stringified cells
SameRow(r1, r2) ==
    /\ Len(r1) = Len(r2)
    /\ \A c \in 1..Len(r1) : SameCell(r1[c], r2[c])

\* the positions of data that hold the first row of their class
FirstOccurrences(data) ==
    { p \in 1..Len(data) : \A q \in 1..(p - 1) : ~SameRow(data[q], data[p]) }

\* C11: _remove_duplicate_rows keeps exactly the first row of every class of
\* rows equal as tuples of stringified cells (None is not the string "None"),
\* in their input order, and applying it to its result changes nothing.
C11_FirstOccurrenceKept ==
    pc = "return" =>
        /\ fn_ret = Pick(fn_arg.data, FirstOccurrences(fn_arg.data))
        /\ _remove_duplicate_rows(fn_ret) = fn_ret

\* C11 witness: a row was dropped as the duplicate of an earlier row of
\* another cell type, and None and "None" were both kept.
C11_Witness ==
    /\ pc = "return"
    /\ Len(fn_ret) < Len(fn_arg.data)
    /\ \E p, q \in 1..Len(fn_arg.data) :
          /\ p < q
          /\ fn_arg.data[p] # fn_arg.data[q]
          /\ SameRow(fn_arg.data[p], fn_arg.data[q])
          /\ fn_arg.data[p] \in Elems(fn_ret)
          /\ fn_arg.data[q] \notin Elems(fn_ret)
    /\ <<None>> \in Elems(fn_ret)
    /\ <<Str("None")>> \in Elems(fn_ret)

(***************************************************************************)
(* write_excel_file on its own: a result with any preamble, header block   *)
(* and captured ranges below is written while the header start spin box    *)
(* holds any value and the merge-headers box is ticked or not.             *)
(***************************************************************************)
Spans == { Range(1, 1, 1, 2), Range(2, 1, 2, 3), Range(2, 1, 3, 1) }

InitWrite ==
    /\ list_files = << >>
    /\ spinbox_header_start \in 1..MaxHeaderStart
    /\ spinbox_header = 1
    /\ checkbox \in [add_filename : {TRUE}, sort_data : {FALSE}, repeat_header : {FALSE},
                     remove_empty_rows : {FALSE}, remove_duplicates : {FALSE},
                     merge_headers : BOOLEAN]
    /\ lineedit_sort_column = <<"A">>
    /\ verification_enabled = TRUE
    /\ worker = NoWorker
    /\ pc = "call"
    /\ RunStart
    /\ AppIdle
    /\ fn_arg \in [preliminary_info : BSeqs({<<Str("a")>>}, 0, MaxPreamble),
                   headers : BSeqs({<<Str("a"), None, Str("b")>>}, 0, MaxHeaderRows),
                   data : {<< <<I(1), I(2), None>> >>},
                   merged_cells : BSeqs(Spans, 0, 2)]
    /\ fn_ret = << >>

call_write_excel_file ==
    /\ pc = "call"
    /\ fn_ret' = write_excel_file(fn_arg.preliminary_info, fn_arg.headers, fn_arg.data,
                                  fn_arg.merged_cells, spinbox_header_start)
    /\ pc' = "return"
    /\ UNCHANGED <<gui_vars, app_vars, worker, run_vars, fn_arg>>

SpecWrite == InitWrite /\ [][call_write_excel_file]_vars

\* the output row at which the header block was written: the row after the
\* preamble
HeaderRowWritten == Len(fn_arg.preliminary_info) + 1

\* C16: when the merged spans are written, the merged ranges of the output
\* are the captured spans with their rows moved by d = the output row of the
\* header block - the original header start row, their columns unchanged.
C16_SpansTranslated ==
    (pc = "return" /\ fn_ret.saved /\ fn_arg.headers # << >>) =>
        LET d == HeaderRowWritten - spinbox_header_start
        IN  fn_ret.merged_cells =
               { Range(r.min_row + d, r.min_col, r.max_row + d, r.max_col) :
                    r \in Elems(fn_arg.merged_cells) }

\* C16 witness: the span (2, 1, 2, 3) captured with header start row 2 was
\* written with the header block at output row 5 and landed on row 5.
C16_Witness ==
    /\ pc = "return"
    /\ fn_ret.saved
    /\ spinbox_header_start = 2
    /\ HeaderRowWritten = 5
    /\ fn_arg.headers # << >>
    /\ Range(2, 1, 2, 3) \in Elems(fn_arg.merged_cells)
    /\ Range(5, 1, 5, 3) \in fn_ret.merged_cells

\* C18: the output has merged cells only if the merge-headers option is set
\* and spans were captured.
C18_MergedOnlyIfRequested ==
    (pc = "return" /\ fn_ret.merged_cells # {}) =>
        (checkbox.merge_headers /\ fn_arg.merged_cells # << >>)

(***************************************************************************)
(* TranslationManager on its own: any sequence of set_language and         *)
(* get_text calls is made on the manager of the built window, which has    *)
(* registered one language_changed callback.  A text is a sequence of      *)
(* pieces, "{}" being a replacement field; fn_arg is the sequence of calls *)
(* made so far and fn_ret the value the last one returned.                 *)
(***************************************************************************)
TRANSLATIONS ==
    [fr |-> [app_title |-> <<"Compilateur Excel Professionnel">>,
             warning |-> <<"Avertissement">>,
             date_time |-> <<"Date et heure : ", "{}">>],
     en |-> [app_title |-> <<"Professional Excel Compiler">>,
             warning |-> <<"Warning">>,
             date_time |-> <<"Date and time: ", "{}">>]]

\* the language codes and keys passed by the callers
LanguageCodes == {"fr", "en", "es"}
TextKeys == {"app_title", "warning", "date_time", "no_such_key"}
FormatArgs == { << >>, <<"x">> }

\* the callbacks registered on the manager: update_ui_language of the window
language_changed_callbacks == 1

\* text.format(*args): the k-th replacement field becomes the k-th argument
format(text, args) ==
    [p \in 1..Len(text) |->
        IF text[p] = "{}"
        THEN args[Cardinality({ q \in 1..p : text[q] = "{}" })]
        ELSE text[p]]

Call(op, arg, args) == [op |-> op, arg |-> arg, args |-> args]

InitLang ==
    /\ GuiIdle
    /\ worker = NoWorker
    /\ pc = "call"
    /\ RunStart
    /\ AppIdle
    /\ FnIdle

\* set_language notifying the callbacks whatever the code
set_language_notifying(language_code) ==
    /\ pc = "call"
    /\ Len(fn_arg) < MaxLangCalls
    /\ fn_arg' = Append(fn_arg, Call("set_language", language_code, << >>))
    /\ fn_ret' = << >>
    /\ current_language' = IF language_code \in DOMAIN TRANSLATIONS THEN language_code
                           ELSE current_language
    /\ callback_calls' = callback_calls + language_changed_callbacks
    /\ UNCHANGED <<gui_vars, worker, pc, run_vars, open_handles, win_vars>>

set_language(language_code) ==
    /\ pc = "call"
    /\ Len(fn_arg) < MaxLangCalls
    /\ fn_arg' = Append(fn_arg, Call("set_language", language_code, << >>))
    /\ fn_ret' = << >>
    /\ IF language_code \in DOMAIN TRANSLATIONS
       THEN /\ current_language' = language_code
            /\ callback_calls' = callback_calls + language_changed_callbacks
       ELSE UNCHANGED <<current_language, callback_calls>>
    /\ UNCHANGED <<gui_vars, worker, pc, run_vars, open_handles, win_vars>>

get_text(key, args) ==
    /\ pc = "call"
    /\ Len(fn_arg) < MaxLangCalls
    /\ fn_arg' = Append(fn_arg, Call("get_text", key, args))
    /\ fn_ret' = IF key \in DOMAIN TRANSLATIONS[current_language]
                 THEN IF args # << >>
                      THEN format(TRANSLATIONS[current_language][key], args)
                      ELSE TRANSLATIONS[current_language][key]
                 ELSE <<key>>
    /\ UNCHANGED <<gui_vars, worker, pc, run_vars, app_vars>>

NextLang ==
    \/ \E language_code \in LanguageCodes : set_language(language_code)
    \/ \E key \in TextKeys, args \in FormatArgs : get_text(key, args)

SpecLang == InitLang /\ [][NextLang]_vars

\* the set_language calls made so far with a code fr or en, by position
SupportedCalls ==
    { k \in 1..Len(fn_arg) : fn_arg[k].op = "set_language" /\ fn_arg[k].arg \in {"fr", "en"} }

\* the most recent supported code passed to set_language, fr when none was
LastSupported ==
    IF SupportedCalls = {} THEN "fr"
    ELSE fn_arg[CHOOSE k \in SupportedCalls : \A l \in SupportedCalls : l <= k].arg

\* C24: after any sequence of calls current_language is the most recent
\* supported code passed to set_language (fr at first), the callbacks have
\* been called once per supported set_language and never for another code,
\* and get_text(key) has returned the text of the key in that language, the
\* two titles among them, and the key itself for a key that is not defined.
C24_LanguageAndTexts ==
    /\ current_language = LastSupported
    /\ callback_calls = Cardinality(SupportedCalls) * language_changed_callbacks
    /\ (fn_arg # << >> /\ fn_arg[Len(fn_arg)].op = "get_text"
                       /\ fn_arg[Len(fn_arg)].args = << >>) =>
          LET key == fn_arg[Len(fn_arg)].arg
          IN  /\ key = "no_such_key" => fn_ret = <<"no_such_key">>
              /\ key # "no_such_key" => fn_ret = TRANSLATIONS[LastSupported][key]
              /\ (key = "app_title" /\ LastSupported = "en")
                    => fn_ret = <<"Professional Excel Compiler">>
              /\ (key = "app_title" /\ LastSupported = "fr")
                    => fn_ret = <<"Compilateur Excel Professionnel">>

\* C24 witness: set_language("en"), then an unsupported code, then
\* get_text("app_title") returned the English title, one callback call made.
C24_Witness ==
    /\ Len(fn_arg) = 3
    /\ fn_arg[1] = Call("set_language", "en", << >>)
    /\ fn_arg[2] = Call("set_language", "es", << >>)
    /\ fn_arg[3] = Call("get_text", "app_title", << >>)
    /\ fn_ret = <<"Professional Excel Compiler">>
    /\ current_language = "en"
    /\ callback_calls = 1

(***************************************************************************)
(* The window: the compile button and the toolbar action both call         *)
(* compile_files, which verifies the selected files when the preliminary   *)
(* verification is on and starts a worker; the worker runs; its finished   *)
(* signal is handled by compilation_finished, which writes the workbook.   *)
(* The user may change the selection at any time.                          *)
(***************************************************************************)
\* the files of the directory listed in the window
ListedNames == <<"f1.xlsx", "f3.csv", "f4.txt">>

\* the selections the user can make, their items in list order
Selections ==
    { Pick(ListedNames, rows) :
         rows \in { r \in SUBSET (1..Len(ListedNames)) : Cardinality(r) <= MaxSelected } }

\* the verdict of verify_files on one file
FileVerdict(name) ==
    LET f == FileNamed(name)
    IN  IF f.ext \in {"xlsx", "xls"}
        THEN verify_excel_file(f, spinbox_header_start, spinbox_header)
        ELSE IF f.ext = "csv"
        THEN verify_csv_file(f, spinbox_header_start, spinbox_header)
        ELSE Verdict(FALSE, "Format de fichier non supporte", 0)

\* whether the verification of one file leaves it open
FileLeftOpen(name) ==
    LET f == FileNamed(name)
    IN  IF f.ext \in {"xlsx", "xls"}
        THEN verify_excel_file_open(f, spinbox_header_start, spinbox_header)
        ELSE IF f.ext = "csv"
        THEN verify_csv_file_open(f, spinbox_header_start, spinbox_header)
        ELSE FALSE

\* verify_files: the loop checks the files in order and stops when the
\* progress dialog was cancelled; checked is the number of files it got to
\* (the dialog, created just before the loop, cannot be cancelled before the
\* first file)
verify_files(file_list, checked) ==
    LET n == IF checked < Len(file_list) THEN checked ELSE Len(file_list)
        seen == SubSeq(file_list, 1, n)
    IN  [compatible_files |->
            SelectSeq(seen, LAMBDA name : FileVerdict(name).is_compatible),
         incompatible_files |->
            SelectSeq(seen, LAMBDA name : ~FileVerdict(name).is_compatible),
         left_open |-> { seen[k] : k \in { l \in 1..n : FileLeftOpen(seen[l]) } }]

\* the end of compile_files: the button is disabled, a worker is built from
\* the options, stored in self.compilation_worker and started
start_worker(selected_files) ==
    /\ worker' = [files |-> selected_files,
                  header_start_row |-> spinbox_header_start,
                  header_rows |-> spinbox_header,
                  add_filename |-> checkbox.add_filename,
                  sort_data |-> checkbox.sort_data,
                  sort_column |-> get_sort_column_index(lineedit_sort_column),
                  repeat_headers |-> checkbox.repeat_header,
                  remove_empty_rows |-> checkbox.remove_empty_rows,
                  remove_duplicates |-> checkbox.remove_duplicates]
    /\ button_compile' = FALSE
    /\ threads' = threads + 1
    /\ pc' = "run"
    /\ i' = 0
    /\ combined_data' = << >>
    /\ headers' = NoHeaders
    /\ merged_cells' = << >>
    /\ preliminary_info' = << >>
    /\ successful_files' = << >>
    /\ failed_files' = << >>
    /\ events' = << >>

\* nothing is started: compile_files returns before building a worker
no_worker == UNCHANGED <<worker, button_compile, threads, pc, run_vars>>

\* compile_files, whatever called it.  checked is the number of files the
\* verification got to before its dialog was cancelled, choice the button
\* pressed in the verification report (ignore exists when there are
\* compatible files).  Nothing in it looks at a worker already running; the
\* model follows the worker now referenced by self.compilation_worker, and
\* does not take the call between the finished signal and its handling.
compile_files_slot(checked, choice) ==
    /\ pc \in {"idle", "run"}
    /\ threads < MaxWorkers
    /\ IF list_files = << >>
       THEN /\ dialog' = "select_files_message"
            /\ no_worker
            /\ UNCHANGED <<compatible_files, incompatible_files, open_handles>>
       ELSE IF ~verification_enabled
       THEN /\ dialog' = "none"
            /\ start_worker(list_files)
            /\ UNCHANGED <<compatible_files, incompatible_files, open_handles>>
       ELSE LET v == verify_files(list_files, checked)
            IN  /\ compatible_files' = v.compatible_files
                /\ incompatible_files' = v.incompatible_files
                /\ open_handles' = open_handles \cup v.left_open
                /\ IF v.incompatible_files = << >>
                   THEN dialog' = "none" /\ start_worker(list_files)
                   ELSE /\ dialog' = "verification_report"
                        /\ IF choice = "ignore" /\ v.compatible_files # << >>
                           THEN start_worker(v.compatible_files)
                           ELSE no_worker
    /\ UNCHANGED <<gui_vars, fn_vars, lang_vars, output_file>>

\* button_compile.clicked: an enabled button is pressed
button_compile_clicked(checked, choice) ==
    /\ button_compile
    /\ compile_files_slot(checked, choice)

\* compile_action.triggered: the toolbar action, which nothing disables
compile_action_triggered(checked, choice) ==
    /\ TRUE
    /\ compile_files_slot(checked, choice)

\* list_files.itemSelectionChanged: the user changes the selection
update_selection_count(selection) ==
    /\ selection # list_files
    /\ list_files' = selection
    /\ button_compile' = (Len(selection) > 0)
    /\ UNCHANGED <<spinbox_header_start, spinbox_header, checkbox, lineedit_sort_column,
                   verification_enabled, worker, pc, run_vars, fn_vars, lang_vars,
                   open_handles, threads, dialog, output_file, compatible_files,
                   incompatible_files>>

\* what wb.save can raise: nothing, the output file is open elsewhere, or
\* another error of the file system
SaveErrors == {"", "PermissionError", "OSError"}

\* compilation_finished writing whatever the result holds
compilation_finished_unchecked(save_error) ==
    /\ pc = "done"
    /\ button_compile' = TRUE
    /\ LET written == write_excel_file(preliminary_info, headers, combined_data,
                                       merged_cells, spinbox_header_start)
       IN  IF ~written.saved \/ save_error \notin {"", "PermissionError"}
           THEN dialog' = "compilation_failed" /\ UNCHANGED output_file
           ELSE IF save_error = "PermissionError"
           THEN dialog' = "file_open_error_message" /\ UNCHANGED output_file
           ELSE /\ output_file' = [saved |-> TRUE, data |-> combined_data,
                                   header_start_row |-> written.header_start_row]
                /\ dialog' = "compilation_report"
    /\ pc' = "idle"
    /\ UNCHANGED <<gui_vars, worker, run_vars, fn_vars, lang_vars, open_handles,
                   threads, compatible_files, incompatible_files>>

\* the handler of the finished signal
compilation_finished(save_error) ==
    /\ pc = "done"
    /\ button_compile' = TRUE
    /\ IF ~HasResult(combined_data, headers)
       THEN dialog' = "no_data_message" /\ UNCHANGED output_file
       ELSE LET written == write_excel_file(preliminary_info, headers, combined_data,
                                            merged_cells, spinbox_header_start)
            IN  IF ~written.saved \/ save_error \notin {"", "PermissionError"}
                THEN dialog' = "compilation_failed" /\ UNCHANGED output_file
                ELSE IF save_error = "PermissionError"
                THEN dialog' = "file_open_error_message" /\ UNCHANGED output_file
                ELSE /\ output_file' = [saved |-> TRUE, data |-> combined_data,
                                        header_start_row |-> written.header_start_row]
                     /\ dialog' = "compilation_report"
    /\ pc' = "idle"
    /\ UNCHANGED <<gui_vars, worker, run_vars, fn_vars, lang_vars, open_handles,
                   threads, compatible_files, incompatible_files>>

\* the run of a worker whose reference was replaced returns; what it emits
\* is not followed
replaced_worker_returns ==
    /\ threads > (IF pc = "run" THEN 1 ELSE 0)
    /\ threads' = threads - 1
    /\ UNCHANGED <<gui_vars, worker, pc, run_vars, fn_vars, lang_vars, open_handles,
                   button_compile, dialog, output_file, compatible_files,
                   incompatible_files>>

\* the built window with a selection made, the verification on or off, and
\* one header row
InitApp ==
    /\ list_files \in Selections
    /\ spinbox_header_start \in 1..MaxHeaderStart
    /\ spinbox_header = 1
    /\ checkbox = [add_filename |-> TRUE, sort_data |-> FALSE, repeat_header |-> FALSE,
                   remove_empty_rows |-> FALSE, remove_duplicates |-> FALSE,
                   merge_headers |-> FALSE]
    /\ lineedit_sort_column = <<"A">>
    /\ verification_enabled \in BOOLEAN
    /\ worker = NoWorker
    /\ pc = "idle"
    /\ RunStart
    /\ AppIdle
    /\ FnIdle

NextApp ==
    \/ \E checked \in 1..MaxSelected, choice \in {"cancel", "ignore"} :
          button_compile_clicked(checked, choice)
    \/ \E checked \in 1..MaxSelected, choice \in {"cancel", "ignore"} :
          compile_action_triggered(checked, choice)
    \/ \E selection \in Selections : update_selection_count(selection)
    \/ run_file
    \/ run_except
    \/ run_finished
    \/ \E save_error \in SaveErrors : compilation_finished(save_error)
    \/ replaced_worker_returns

SpecApp == InitApp /\ [][NextApp]_vars

\* C21: when compilation_finished handles a result with no rows or no
\* header it shows the no-data warning and nothing else: the saved output is
\* what it was, no write error and no report; with rows and a header it
\* never shows the no-data warning, a write error leaves the output as it
\* was, and the report goes with a saved workbook holding the rows.
C21_NothingToWrite ==
    [][(pc = "done" /\ pc' = "idle") =>
          IF combined_data = << >> \/ headers.isNone \/ headers.rows = << >>
          THEN /\ dialog' = "no_data_message"
               /\ output_file' = output_file
          ELSE /\ dialog' \in {"compilation_report", "file_open_error_message",
                               "compilation_failed"}
               /\ dialog' # "compilation_report" => output_file' = output_file
               /\ dialog' = "compilation_report" =>
                     output_file'.saved /\ output_file'.data = combined_data]_vars

\* C21 witness: a run in which every file failed has been handled: the
\* no-data warning is shown, nothing was saved, the button is enabled again.
C21_Witness ==
    /\ pc = "idle"
    /\ dialog = "no_data_message"
    /\ failed_files # << >>
    /\ successful_files = << >>
    /\ combined_data = << >>
    /\ output_file = NoOutput
    /\ button_compile
    /\ threads = 0

\* C29 as stated: at most one worker thread is running at any time.
C29_AtMostOneWorker == threads <= 1

\* C30 as stated: with the verification on, every file of a worker that is
\* started was checked by verify_files and reported compatible.
C30_OnlyVerifiedCompiled ==
    [][(verification_enabled /\ threads' = threads + 1) =>
          \A k \in 1..Len(worker'.files) :
             worker'.files[k] \in Elems(compatible_files')]_vars

====
